---- MODULE Spec2Model ----
(***************************************************************************)
(* Notes service: the HTTP API of notes_app/main.py over the single table  *)
(* of notes_app/models.py, with the per-request session of                 *)
(* notes_app/database.py, and the agent bridge of notes_app/notes_mcp.py.  *)
(*                                                                         *)
(* The API handlers are plain `def` functions, which FastAPI runs on a     *)
(* thread pool: requests run concurrently, each in its own session, and    *)
(* every round trip to the storage engine is one atomic step.              *)
(***************************************************************************)
EXTENDS Integers, Sequences, FiniteSets, TLC

\* ------------------------------------------------------------------ bounds
\* Number of rows the model inserts over a whole behaviour.
MaxCreates == 2

\* ------------------------------------------------------- program constants
DefaultSkip == 0
DefaultLimit == 100
HTTP_OK == 200
HTTP_NOT_FOUND == 404
HTTP_SERVER_ERROR == 500

None == "None"

\* The requests in flight at once, each on its own worker thread: two, the
\* least number that interleaves one handler's steps with another's.
Reqs == { 1, 2 }
\* Identities of session objects; there are never more live ones than requests.
SessionIds == Reqs

\* Valid create payloads (schemas.NoteCreate: title and content, both text).
Payloads == { [title |-> "A", content |-> "B"], [title |-> "X", content |-> "Y"] }
\* Readings of datetime.utcnow.
Times == { "2026-01-01T00:00:00" }
\* Query parameters of GET /notes/: any int is accepted.
SkipVals == (-1 .. MaxCreates)
LimitVals == { -1, 0, 1, 2, DefaultLimit }
\* Path parameter of DELETE /notes/{note_id}.
DeleteIds == 1 .. (MaxCreates + 1)

VARIABLES
    notes,       \* the rows of table "notes": records id, title, content, created_at
    open,        \* the sessions that are open (not yet closed)
    req,         \* per request slot: position in its handler, arguments, session, response
    assigned,    \* history: the ids the engine assigned to inserted rows, in order
    deletedIds,  \* history: the ids whose DELETE request returned success
    bridge       \* the agent bridge: its last tool call and what came of it

vars == << notes, open, req, assigned, deletedIds, bridge >>

\* ------------------------------------------------------------ pure helpers
Max(S) == CHOOSE x \in S : \A y \in S : y <= x
Min(S) == CHOOSE x \in S : \A y \in S : x <= y

Ids(rows) == { n.id : n \in rows }

\* SQLite rowid of a new row in a table declared `id INTEGER PRIMARY KEY`
\* (no AUTOINCREMENT): one more than the largest rowid now in the table.
NextRowId(rows) == IF rows = {} THEN 1 ELSE Max(Ids(rows)) + 1

\* The rows in rowid order, the order of an unsorted full scan.
RECURSIVE Scan(_)
Scan(rows) ==
    IF rows = {} THEN << >>
    ELSE LET first == CHOOSE n \in rows : \A m \in rows : n.id <= m.id
         IN  << first >> \o Scan(rows \ {first})

\* Page as an off-by-one in the offset would have it: one row too many skipped.
Page_SkipsOneMore(rows, skip, limit) ==
    LET s    == Scan(rows)
        off  == IF skip < 0 THEN 1 ELSE skip + 1
        rest == IF off >= Len(s) THEN << >> ELSE SubSeq(s, off + 1, Len(s))
    IN  IF limit < 0 \/ limit >= Len(rest) THEN rest ELSE SubSeq(rest, 1, limit)

\* SELECT ... LIMIT limit OFFSET skip: a negative OFFSET counts as 0, a
\* negative LIMIT is no limit.
Page(rows, skip, limit) ==
    LET s    == Scan(rows)
        off  == IF skip < 0 THEN 0 ELSE skip
        rest == IF off >= Len(s) THEN << >> ELSE SubSeq(s, off + 1, Len(s))
    IN  IF limit < 0 \/ limit >= Len(rest) THEN rest ELSE SubSeq(rest, 1, limit)

\* SessionLocal(): a new session object, distinct from every live one.
SessionLocal == Min(SessionIds \ open)

IdleReq == [ pc |-> "idle", op |-> None, arg |-> None, session |-> None,
             note |-> 0, resp |-> None ]

Response(status, body) == [ status |-> status, body |-> body ]

\* The k-th insert whose row now holds id i (0 when no insert produced i).
Incarnation(i) ==
    LET ks == { k \in 1 .. Len(assigned) : assigned[k] = i }
    IN  IF ks = {} THEN 0 ELSE Max(ks)

\* ------------------------------------------------------------------- Init
NoCall == [ tool |-> None ]

Init ==
    /\ notes = {}
    /\ open = {}
    /\ req = [ r \in Reqs |-> IdleReq ]
    /\ assigned = << >>
    /\ deletedIds = {}
    /\ bridge = NoCall

\* ------------------------------------------------------ session lifecycle
\* A request arrives and Depends(get_db) opens its session: db = SessionLocal(); yield db
get_db_open(r, op, arg) ==
    /\ req[r].pc = "idle"
    /\ SessionIds \ open # {}
    /\ LET db == SessionLocal
       IN  /\ open' = open \cup {db}
           /\ req' = [ req EXCEPT ![r] = [ pc |-> "handler", op |-> op, arg |-> arg,
                                           session |-> db, note |-> 0, resp |-> None ] ]
    /\ UNCHANGED << notes, assigned, deletedIds, bridge >>

\* get_db without try/finally: db.close() runs only when the handler returned.
get_db_close_NoFinally(r) ==
    /\ req[r].pc = "closing"
    /\ open' = IF req[r].resp.status = HTTP_OK THEN open \ {req[r].session} ELSE open
    /\ req' = [ req EXCEPT ![r] = IdleReq ]
    /\ UNCHANGED << notes, assigned, deletedIds, bridge >>

\* finally: db.close(), on every way out of the handler; the request is over.
get_db_close(r) ==
    /\ req[r].pc = "closing"
    /\ open' = open \ {req[r].session}
    /\ req' = [ req EXCEPT ![r] = IdleReq ]
    /\ UNCHANGED << notes, assigned, deletedIds, bridge >>

\* --------------------------------------------------------- POST /notes/
\* db_note = Note(...); db.add(db_note); db.commit(): INSERT and COMMIT.
create_note_commit(r, now) ==
    /\ req[r].pc = "handler" /\ req[r].op = "create"
    /\ Len(assigned) < MaxCreates
    /\ LET id  == NextRowId(notes)
           row == [ id |-> id, title |-> req[r].arg.title,
                    content |-> req[r].arg.content, created_at |-> now ]
       IN  /\ notes' = notes \cup {row}
           /\ assigned' = Append(assigned, id)
           /\ req' = [ req EXCEPT ![r].pc = "refresh", ![r].note = id ]
    /\ UNCHANGED << open, deletedIds, bridge >>

\* db.refresh(db_note); return db_note: SELECT the row by its primary key.
create_note_refresh(r) ==
    /\ req[r].pc = "refresh"
    /\ LET found == { n \in notes : n.id = req[r].note }
       IN  req' = [ req EXCEPT ![r].pc = "closing",
                      ![r].resp = IF found = {}
                                  THEN Response(HTTP_SERVER_ERROR, "Internal Server Error")
                                  ELSE Response(HTTP_OK, CHOOSE n \in found : TRUE) ]
    /\ UNCHANGED << notes, open, assigned, deletedIds, bridge >>

\* ---------------------------------------------------------- GET /notes/
read_notes(r, skip, limit) ==
    /\ req[r].pc = "handler" /\ req[r].op = "list"
    /\ req' = [ req EXCEPT ![r].pc = "closing",
                  ![r].arg = [ skip |-> skip, limit |-> limit ],
                  ![r].resp = Response(HTTP_OK, Page(notes, skip, limit)) ]
    /\ UNCHANGED << notes, open, assigned, deletedIds, bridge >>

\* ------------------------------------------------ DELETE /notes/{note_id}
\* delete_note without the `if note is None` test: it goes on to delete and commit.
delete_note_lookup_Unchecked(r) ==
    /\ req[r].pc = "handler" /\ req[r].op = "delete"
    /\ req' = [ req EXCEPT ![r].pc = "found", ![r].note = Incarnation(req[r].arg) ]
    /\ UNCHANGED << notes, open, assigned, deletedIds, bridge >>

\* note = db.query(Note).filter(Note.id == note_id).first(); 404 if None.
delete_note_lookup(r) ==
    /\ req[r].pc = "handler" /\ req[r].op = "delete"
    /\ IF req[r].arg \in Ids(notes)
       THEN req' = [ req EXCEPT ![r].pc = "found", ![r].note = Incarnation(req[r].arg) ]
       ELSE req' = [ req EXCEPT ![r].pc = "closing",
                       ![r].resp = Response(HTTP_NOT_FOUND, [ detail |-> "Note not found" ]) ]
    /\ UNCHANGED << notes, open, assigned, deletedIds, bridge >>

\* db.delete(note); db.commit(): DELETE FROM notes WHERE id = ?, then COMMIT.
\* A DELETE that matches no row only warns; the handler returns success.
delete_note_commit(r) ==
    /\ req[r].pc = "found"
    /\ notes' = { n \in notes : n.id # req[r].arg }
    /\ deletedIds' = deletedIds \cup {req[r].arg}
    /\ req' = [ req EXCEPT ![r].pc = "closing",
                  ![r].resp = Response(HTTP_OK, [ status |-> "success",
                                                  message |-> "Note deleted" ]) ]
    /\ UNCHANGED << open, assigned, bridge >>

\* db.commit() raises (the engine fails): the exception leaves the handler.
commit_fails(r) ==
    /\ \/ req[r].pc = "handler" /\ req[r].op = "create"
       \/ req[r].pc = "found"
    /\ req' = [ req EXCEPT ![r].pc = "closing",
                  ![r].resp = Response(HTTP_SERVER_ERROR, "Internal Server Error") ]
    /\ UNCHANGED << notes, open, assigned, deletedIds, bridge >>

Next ==
    \E r \in Reqs :
        \/ \E p \in Payloads : get_db_open(r, "create", p)
        \/ get_db_open(r, "list", None)
        \/ \E i \in DeleteIds : get_db_open(r, "delete", i)
        \/ \E now \in Times : create_note_commit(r, now)
        \/ create_note_refresh(r)
        \/ \E s \in SkipVals, l \in LimitVals : read_notes(r, s, l)
        \/ delete_note_lookup(r)
        \/ delete_note_commit(r)
        \/ commit_fails(r)
        \/ get_db_close(r)

Spec == Init /\ [][Next]_vars

\* ============================================================ agent bridge
\* Text is a sequence of characters; an f-string is a concatenation.
TXT_CreateSuccess ==
    << "S", "u", "c", "c", "e", "s", "s", "!", " ", "N", "o", "t", "e", " ", "c", "r",
       "e", "a", "t", "e", "d", " ", "w", "i", "t", "h", " ", "I", "D", " " >>
TXT_Dot ==
    << "." >>
TXT_CreateError ==
    << "E", "r", "r", "o", "r", " ", "c", "o", "n", "n", "e", "c", "t", "i", "n", "g",
       " ", "t", "o", " ", "N", "o", "t", "e", "s", " ", "A", "p", "p", ":", " " >>
TXT_Empty ==
    << "T", "h", "e", " ", "n", "o", "t", "e", "b", "o", "o", "k", " ", "i", "s", " ",
       "c", "u", "r", "r", "e", "n", "t", "l", "y", " ", "e", "m", "p", "t", "y", "." >>
TXT_ListHeader ==
    << "H", "e", "r", "e", " ", "a", "r", "e", " ", "t", "h", "e", " ", "c", "u", "r",
       "r", "e", "n", "t", " ", "n", "o", "t", "e", "s", ":", "\n" >>
TXT_LineId ==
    << "-", " ", "I", "D", " " >>
TXT_LineTitle ==
    << " ", "|", " ", "T", "i", "t", "l", "e", ":", " " >>
TXT_LineContent ==
    << " ", "|", " ", "C", "o", "n", "t", "e", "n", "t", ":", " " >>
TXT_Newline ==
    << "\n" >>
TXT_ListError ==
    << "E", "r", "r", "o", "r", " ", "r", "e", "a", "d", "i", "n", "g", " ", "n", "o",
       "t", "e", "s", ":", " " >>
TXT_NotFoundHead ==
    << "E", "r", "r", "o", "r", ":", " ", "N", "o", "t", "e", " ", "w", "i", "t", "h",
       " ", "I", "D", " " >>
TXT_NotFoundTail ==
    << " ", "w", "a", "s", " ", "n", "o", "t", " ", "f", "o", "u", "n", "d", "." >>
TXT_DeletedHead ==
    << "N", "o", "t", "e", " " >>
TXT_DeletedTail ==
    << " ", "h", "a", "s", " ", "b", "e", "e", "n", " ", "d", "e", "l", "e", "t", "e",
       "d", "." >>
TXT_DeleteError ==
    << "E", "r", "r", "o", "r", " ", "d", "e", "l", "e", "t", "i", "n", "g", " ", "n",
       "o", "t", "e", ":", " " >>
MSG_ConnectionRefused ==
    << "A", "l", "l", " ", "c", "o", "n", "n", "e", "c", "t", "i", "o", "n", " ", "a",
       "t", "t", "e", "m", "p", "t", "s", " ", "f", "a", "i", "l", "e", "d" >>
MSG_StatusHead ==
    << "C", "l", "i", "e", "n", "t", " ", "e", "r", "r", "o", "r", " ", "'" >>
MSG_StatusTail ==
    << "'", " ", "f", "o", "r", " ", "u", "r", "l" >>

Digits == << "0", "1", "2", "3", "4", "5", "6", "7", "8", "9" >>

\* str(n) of an int, as an f-string formats it.
RECURSIVE NatToStr(_)
NatToStr(n) ==
    IF n < 10 THEN << Digits[n + 1] >>
    ELSE NatToStr(n \div 10) \o << Digits[(n % 10) + 1] >>
IntToStr(n) == IF n < 0 THEN << "-" >> \o NatToStr(-n) ELSE NatToStr(n)

\* JSON values, tagged by type.
Num(n) == [ type |-> "number", v |-> n ]
Str(s) == [ type |-> "string", v |-> s ]
Arr(s) == [ type |-> "array", v |-> s ]
Obj(f) == [ type |-> "object", v |-> f ]
NotJson == [ type |-> "invalid", v |-> << >> ]

\* An f-string field: str() of a JSON number or string.
Format(j) == IF j.type = "number" THEN IntToStr(j.v) ELSE j.v

NoteA == Obj([ id |-> Num(1), title |-> Str(<< "A" >>), content |-> Str(<< "B" >>) ])
NoteX == Obj([ id |-> Num(12), title |-> Str(<< "X" >>), content |-> Str(<< "Y" >>) ])
NoTitle == Obj([ id |-> Num(3), content |-> Str(<< "B" >>) ])
Detail == Obj([ detail |-> Str(<< "n", "o" >>) ])

\* What the HTTP call of a tool can come to: a response with a status and a
\* body, or a transport failure (an httpx.HTTPError) with its message.
Statuses == { 200, 201, 404, 422, 500 }
Bodies == { NotJson, Arr(<< >>), Arr(<< NoteA >>), Arr(<< NoteA, NoteX >>),
            Arr(<< NoteA, NoTitle >>), Arr(<< Num(7) >>), NoteA, Detail }
ErrMsgs == { << >>, MSG_ConnectionRefused }
Outcomes ==
    [ kind : {"response"}, status : Statuses, body : Bodies, msg : {<< >>} ]
      \cup [ kind : {"transport"}, status : {0}, body : {NotJson}, msg : ErrMsgs ]

BridgeTitles == { << "A" >>, << "X" >> }
BridgeContents == { << "B" >> }
BridgeIds == { -1, 0, 1, 12 }

IsSuccess(status) == status \in 200 .. 299

\* str(e) of the HTTPStatusError of response.raise_for_status(): httpx's
\* message, which names the status.
StatusErrorStr(status) == MSG_StatusHead \o IntToStr(status) \o MSG_StatusTail

Text(t) == [ kind |-> "text", text |-> t ]
Raised(exc) == [ kind |-> "raised", text |-> << >>, exc |-> exc ]

\* create_new_note: the value returned, or the exception that leaves the tool.
create_new_note_result(title, content, o) ==
    IF o.kind = "transport" THEN Text(TXT_CreateError \o o.msg)
    ELSE IF ~ IsSuccess(o.status) THEN Text(TXT_CreateError \o StatusErrorStr(o.status))
    ELSE IF o.body.type = "invalid" THEN Raised("JSONDecodeError")
    ELSE IF o.body.type # "object" THEN Raised("TypeError")
    ELSE IF "id" \notin DOMAIN o.body.v THEN Raised("KeyError")
    ELSE Text(TXT_CreateSuccess \o Format(o.body.v.id) \o TXT_Dot)

\* `not notes`: an empty list or dict is falsy (Bodies holds no JSON scalar).
Falsy(j) == j.type \in {"array", "object"} /\ DOMAIN j.v = {}

\* One pass of the loop body of search_notes over the rest of the list.
RECURSIVE NoteLines(_, _)
NoteLines(items, acc) ==
    IF acc.kind = "raised" \/ items = << >> THEN acc
    ELSE LET note == Head(items)
         IN  IF note.type # "object" THEN Raised("TypeError")
             ELSE IF {"id", "title", "content"} \ DOMAIN note.v # {} THEN Raised("KeyError")
             ELSE NoteLines(Tail(items),
                    Text(acc.text \o TXT_LineId \o Format(note.v.id)
                           \o TXT_LineTitle \o Format(note.v.title)
                           \o TXT_LineContent \o Format(note.v.content) \o TXT_Newline))

search_notes_result(o) ==
    IF o.kind = "transport" THEN Text(TXT_ListError \o o.msg)
    ELSE IF ~ IsSuccess(o.status) THEN Text(TXT_ListError \o StatusErrorStr(o.status))
    ELSE IF o.body.type = "invalid" THEN Raised("JSONDecodeError")
    ELSE IF Falsy(o.body) THEN Text(TXT_Empty)
    ELSE IF o.body.type = "array" THEN NoteLines(o.body.v, Text(TXT_ListHeader))
    ELSE Raised("TypeError")

\* delete_note_by_id without its test of status 404: raise_for_status takes it.
delete_note_by_id_result_No404(note_id, o) ==
    IF o.kind = "transport" THEN Text(TXT_DeleteError \o o.msg)
    ELSE IF ~ IsSuccess(o.status) THEN Text(TXT_DeleteError \o StatusErrorStr(o.status))
    ELSE Text(TXT_DeletedHead \o IntToStr(note_id) \o TXT_DeletedTail)

delete_note_by_id_result(note_id, o) ==
    IF o.kind = "transport" THEN Text(TXT_DeleteError \o o.msg)
    ELSE IF o.status = HTTP_NOT_FOUND
         THEN Text(TXT_NotFoundHead \o IntToStr(note_id) \o TXT_NotFoundTail)
    ELSE IF ~ IsSuccess(o.status) THEN Text(TXT_DeleteError \o StatusErrorStr(o.status))
    ELSE Text(TXT_DeletedHead \o IntToStr(note_id) \o TXT_DeletedTail)

Call(tool, note_id, o, result) ==
    [ tool |-> tool, note_id |-> note_id, outcome |-> o, result |-> result ]

create_new_note(title, content, o) ==
    /\ bridge' = Call("create", 0, o, create_new_note_result(title, content, o))
    /\ UNCHANGED << notes, open, req, assigned, deletedIds >>

search_notes(o) ==
    /\ bridge' = Call("list", 0, o, search_notes_result(o))
    /\ UNCHANGED << notes, open, req, assigned, deletedIds >>

delete_note_by_id(note_id, o) ==
    /\ bridge' = Call("delete", note_id, o, delete_note_by_id_result(note_id, o))
    /\ UNCHANGED << notes, open, req, assigned, deletedIds >>

BridgeNext ==
    \E o \in Outcomes :
        \/ \E t \in BridgeTitles, c \in BridgeContents : create_new_note(t, c, o)
        \/ search_notes(o)
        \/ \E i \in BridgeIds : delete_note_by_id(i, o)

BridgeSpec == Init /\ [][BridgeNext]_vars

\* ================================================================= claims
ListStep(r) == req[r].pc = "handler" /\ req[r].op = "list" /\ req'[r].pc = "closing"
LookupStep(r) == req[r].pc = "handler" /\ req[r].op = "delete" /\ req'[r].pc # "handler"
InsertStep(r) == req[r].pc = "handler" /\ req[r].op = "create" /\ req'[r].pc = "refresh"
RefreshStep(r) == req[r].pc = "refresh" /\ req'[r].pc = "closing"
BodyIds(body) == { body[i].id : i \in 1 .. Len(body) }

\* C1: every id assigned by create is strictly greater than every id assigned
\* before it (hence unique) and is never the id of a note deleted since.
C1_IdsNeverReused ==
    [][ Len(assigned') = Len(assigned) + 1 =>
          LET id == assigned'[Len(assigned')]
          IN  /\ \A k \in 1 .. Len(assigned) : assigned[k] < id
              /\ id \notin deletedIds ]_vars

\* C2: once a delete of an id has returned success, every later list omits
\* that id and every later delete of that id answers 404.
C2_DeleteIsPermanent ==
    [][ \A r \in Reqs :
          /\ ListStep(r) => BodyIds(req'[r].resp.body) \cap deletedIds = {}
          /\ (LookupStep(r) /\ req[r].arg \in deletedIds) =>
                 (req'[r].pc = "closing" /\ req'[r].resp.status = HTTP_NOT_FOUND) ]_vars

\* C3: a delete of an id that no stored note has answers 404, and no step of
\* that request changes the stored notes.
C3_DeleteMissingIs404 ==
    [][ \A r \in Reqs :
          /\ (LookupStep(r) /\ req[r].arg \notin Ids(notes)) =>
                 /\ req'[r].pc = "closing"
                 /\ req'[r].resp.status = HTTP_NOT_FOUND
                 /\ notes' = notes
          /\ (req[r].pc = "closing" /\ req[r].op = "delete"
                /\ req[r].resp.status = HTTP_NOT_FOUND /\ req'[r] # req[r]) =>
                 (req'[r].pc = "idle" /\ notes' = notes) ]_vars

C3_Witness ==
    \E r \in Reqs : /\ req[r].op = "delete" /\ req[r].pc = "closing"
                    /\ req[r].resp.status = HTTP_NOT_FOUND
                    /\ notes # {}

\* C4: a create that succeeds inserts exactly one row, leaves the rows already
\* stored as they were, and returns the persisted note: a positive id, the
\* submitted title and content, a created_at that is not null.
C4_CreateReturnsPersisted ==
    [][ \A r \in Reqs :
          /\ InsertStep(r) =>
                 /\ notes \subseteq notes'
                 /\ Cardinality(notes' \ notes) = 1
                 /\ \A n \in notes' \ notes :
                        /\ n.id > 0 /\ n.id \notin Ids(notes)
                        /\ n.title = req[r].arg.title
                        /\ n.content = req[r].arg.content
                        /\ n.created_at # None
          /\ (RefreshStep(r) /\ req'[r].resp.status = HTTP_OK) =>
                 /\ req'[r].resp.body \in notes
                 /\ req'[r].resp.body.id \in Nat \ {0}
                 /\ req'[r].resp.body.title = req[r].arg.title
                 /\ req'[r].resp.body.content = req[r].arg.content
                 /\ req'[r].resp.body.created_at # None
                 /\ notes' = notes ]_vars

\* C5: from an empty store, after N creates and no delete, a default list
\* returns N notes, a list with limit=1 returns one, a list with skip=N none.
C5_ListCounts ==
    [][ \A r \in Reqs :
          (ListStep(r) /\ deletedIds = {} /\ Len(assigned) >= 1
             /\ Len(assigned) <= DefaultLimit) =>
             LET N    == Len(assigned)
                 a    == req'[r].arg
                 body == req'[r].resp.body
             IN  /\ (a.skip = DefaultSkip /\ a.limit = DefaultLimit) => Len(body) = N
                 /\ (a.skip = DefaultSkip /\ a.limit = 1) => Len(body) = 1
                 /\ (a.skip = N /\ a.limit = DefaultLimit) => body = << >> ]_vars

C5_Witness ==
    \E r \in Reqs : /\ req[r].op = "list" /\ req[r].pc = "closing"
                    /\ deletedIds = {} /\ Len(assigned) = MaxCreates
                    /\ req[r].arg = [ skip |-> DefaultSkip, limit |-> DefaultLimit ]
                    /\ Len(req[r].resp.body) = MaxCreates

\* C6: skip is non-negative and limit positive, and every list response holds
\* at most limit notes: the stored notes, in insertion order, after the first skip.
C6_LimitBoundsResult ==
    \A r \in Reqs :
        (req[r].op = "list" /\ req[r].pc = "closing") =>
            /\ req[r].arg.skip >= 0
            /\ req[r].arg.limit > 0
            /\ Len(req[r].resp.body) <= req[r].arg.limit

\* C7: every request in flight holds an open session of its own, and no
\* session is open that no request in flight holds: each is closed when its
\* request ends, whichever way the handler was left.
C7_SessionsScoped ==
    /\ \A r \in Reqs : req[r].pc = "idle" => req[r].session = None
    /\ \A r \in Reqs : req[r].pc # "idle" => req[r].session \in open
    /\ \A r1, r2 \in Reqs :
          (r1 # r2 /\ req[r1].pc # "idle" /\ req[r2].pc # "idle") =>
              req[r1].session # req[r2].session
    /\ open = { req[r].session : r \in { q \in Reqs : req[q].pc # "idle" } }

C7_Witness ==
    \E r1, r2 \in Reqs :
        /\ req[r1].pc = "idle"
        /\ req[r2].pc = "closing" /\ req[r2].resp.status # HTTP_OK
        /\ req[r2].session # Min(SessionIds)
        /\ open = {req[r2].session}

\* C10: of two concurrent deletes that both found the same note, only one
\* returns success.
C10_OneDeleteSucceeds ==
    \A r1, r2 \in Reqs :
        (/\ r1 # r2
         /\ req[r1].op = "delete" /\ req[r2].op = "delete"
         /\ req[r1].pc = "closing" /\ req[r2].pc = "closing"
         /\ req[r1].note # 0 /\ req[r1].note = req[r2].note
         /\ req[r1].arg = req[r2].arg) =>
            ~ (req[r1].resp.status = HTTP_OK /\ req[r2].resp.status = HTTP_OK)

\* C8: every call of a bridge tool ends by returning text; no exception leaves it.
C8_BridgeAlwaysReturnsText ==
    bridge.tool # None => bridge.result.kind = "text"

\* The three outcomes the delete tool is to tell apart.
Class(o) ==
    IF o.kind = "transport" THEN "other"
    ELSE IF o.status = HTTP_NOT_FOUND THEN "not_found"
    ELSE IF IsSuccess(o.status) THEN "success"
    ELSE "other"

HasPrefix(t, p) == Len(t) >= Len(p) /\ SubSeq(t, 1, Len(p)) = p

\* C9: the delete tool returns text, and the text of one kind of outcome
\* (success, not found, other failure) is never the text of another kind, for
\* any id and any outcome; the success and not-found texts never have the form
\* of the generic error text.
C9_DeleteTextsDistinct ==
    bridge.tool = "delete" =>
        LET c == Class(bridge.outcome)
            t == bridge.result.text
        IN  /\ bridge.result.kind = "text"
            /\ \A i \in BridgeIds, o \in Outcomes :
                   Class(o) # c => delete_note_by_id_result(i, o).text # t
            /\ c # "other" => ~ HasPrefix(t, TXT_DeleteError)
            /\ c = "other" => HasPrefix(t, TXT_DeleteError)

C9_Witness ==
    /\ bridge.tool = "delete"
    /\ Class(bridge.outcome) = "not_found"
    /\ bridge.note_id = 12
    /\ bridge.result.text = TXT_NotFoundHead \o << "1", "2" >> \o TXT_NotFoundTail

====
